---- MODULE Spec2Model ----
(***************************************************************************)
(* Verification model of the ttstream transport core of kitex:             *)
(*   - container.Pipe          (src/unnamed/part_001)                      *)
(*   - streamIO                (provider/ttstream/connection_buffer.go)    *)
(*   - transport               (provider/ttstream/transport.go)            *)
(* Three specifications share the definitions below:                       *)
(*   SpecPipe  one Pipe, readers/writers/closers interleaved statement by  *)
(*             statement;                                                   *)
(*   SpecSIO   one streamIO, its methods interleaved atomic by atomic;      *)
(*   Spec      a client and a server transport joined by one connection.   *)
(* container.Queue and the stream type (stream.go) are not part of the     *)
(* sources at hand; they are modelled from the specification and marked.   *)
(***************************************************************************)
EXTENDS Integers, Sequences, FiniteSets, TLC

\* ------------------------------------------------------------------ bounds
MaxWrites  == 2      \* Pipe.Write calls of a run (items are numbered 1..MaxWrites)
MaxBuf     == 2      \* largest len(items) handed to Pipe.Read
MaxCallers == 1      \* Write/Close callers that may sit before their cond.Signal
MaxCalls   == 3      \* streamIO method calls of a run
MaxStreams == 1      \* newStream calls of a run (sids are 1..MaxStreams)
IdBits     == 3      \* width of the stream id counter (int32 in the source)
MaxFrames  == 3      \* frames handed to writeFrame in a run

\* the goroutines that call Pipe.Read
Readers == {"r1", "r2"}

Min(a, b) == IF a < b THEN a ELSE b

\* ------------------------------------------------------------------ state
VARIABLES
  pipe,       \* SpecPipe: the Pipe under test [queue, closed, cancelled]
  waiters,    \* goroutines parked in p.cond.Wait()
  pendSig,    \* callers of Write/Close that have not yet reached p.cond.Signal()
  rd,         \* per reader: position in Pipe.Read and its locals
  out,        \* items returned by Read calls, in order of return
  nw,         \* number of Pipe.Write calls made so far (item k is the k-th written)
  hist,       \* history flags of the pipe run
  sio,        \* SpecSIO: the streamIO under test
  tpc,        \* SpecSIO: per goroutine, the streamIO method it is in and where
  ncalls,     \* SpecSIO: streamIO method calls made so far
  called,     \* SpecSIO: the streamIO methods called so far
  done,       \* SpecSIO: the half-close methods that have returned so far
  nin,        \* SpecSIO: input calls made so far (message k is the k-th input)
  olog,       \* SpecSIO: what the output calls returned so far
  wchannel,   \* Spec: per transport, t.wchannel
  wbuf,       \* Spec: per transport, frames encoded into the writer and not flushed
  wire,       \* Spec: per transport, frames flushed to the connection, not yet decoded
  lw,         \* Spec: per transport, where loopWrite stands
  streams,    \* Spec: per transport, t.streams (sid -> streamIO)
  spipe,      \* Spec: per transport, t.spipe
  scache,     \* Spec: per transport, t.scache
  clientStreamID,  \* Spec: the process-wide stream id counter
  st,         \* Spec: per transport and sid, the stream object and its caller
  nframes,    \* Spec: frames handed to writeFrame so far
  sent,       \* Spec: per transport and sid, types of the frames enqueued on wchannel
  disp,       \* Spec: per transport and sid, payloads loopRead handed to sio.input
  recvd,      \* Spec: per transport and sid, payloads returned by streamRecv
  wclosed,    \* Spec: per transport, t.wchannel has been closed
  connClosed, \* Spec: per transport, its end of the connection has been closed
  lr,         \* Spec: per transport, where loopRead stands
  panicked,   \* Spec: per transport, the panic that ended its process, if any
  allocs      \* SpecSid: the newStream calls so far, in the order of their AddInt32

pipeVars == <<pipe, waiters, pendSig, rd, out, nw, hist>>

sioVars == <<sio, tpc, ncalls, called, done, nin, olog>>

trVars == <<wchannel, wbuf, wire, lw, streams, spipe, scache, clientStreamID,
            st, nframes, sent, disp, recvd,
            wclosed, connClosed, lr, panicked>>

sidVars == <<allocs>>

vars == <<pipeVars, sioVars, trVars, sidVars>>

\* ------------------------------------------------------------------ Queue
\* container.Queue: FIFO guarded by the pipe's locker (modelled from the
\* specification: "Unbounded FIFO backed by a mutex+condvar and a queue").
QueueAdd(q, item) == Append(q, item)

QueueGetOk(q) == q /= <<>>

QueueGetVal(q) == Head(q)

QueueGetRest(q) == Tail(q)

QueueSize(q) == Len(q)

\* ------------------------------------------------------------------ Pipe
\* NewPipe: empty queue, closed = false.
NewPipe == [queue |-> <<>>, closed |-> FALSE, cancelled |-> FALSE]

\* Pipe.Write, lines 73-75: every item is added to the queue; the code has
\* no closed check.
PipeWriteAdd(p, item) == [p EXCEPT !.queue = QueueAdd(@, item)]

\* Pipe.Write, line 72: the function has no result, so a caller can never
\* be told of a failure.
PipeWriteErr(p) == "nil"

\* Pipe.Close, lines 80-82: closed = true under the lock.
PipeCloseSet(p) == [p EXCEPT !.closed = TRUE]

\* Pipe.Cancel (not in the sources; from the specification: "marks
\* cancelled; remaining items are discarded; readers see EOF immediately").
PipeCancelSet(p) == [p EXCEPT !.closed = TRUE, !.cancelled = TRUE, !.queue = <<>>]

\* (mutant) the closed flag looked at before the queue
MutPipeCheck(p) ==
  IF p.closed THEN "eof"
  ELSE IF QueueSize(p.queue) /= 0 THEN "again"
  ELSE "wait"

\* Pipe.Read, lines 55-63: the decision taken under the lock.
\* "Important: check empty first and then check EOF".
PipeCheck(p) ==
  IF QueueSize(p.queue) /= 0 THEN "again"
  ELSE IF p.closed THEN "eof"
  ELSE "wait"

\* Pipe.Read, lines 31-43: what follows a p.queue.Get() that found nothing,
\* with i items already taken: leave the loop, or yield and try once more.
PipeGetMiss(i, retried) ==
  IF i > 0 THEN "break"
  ELSE IF retried THEN "break"
  ELSE "gosched"

\* Pipe.Read, lines 30 and 44-45: after items[i] = val; n++ the loop goes on
\* while i < len(items).
PipeLoopDone(taken, len) == taken >= len

\* (mutant) the n > 0 test left out
MutPipeAfterLoop(n) == "return"

\* Pipe.Read, lines 47-52: after the loop, n > 0 returns (n, nil); n = 0
\* goes on to the locked wait.
PipeAfterLoop(n) == IF n > 0 THEN "return" ELSE "lock"

\* ------------------------------------------------------- SpecPipe: readers
IdleRd == [pc |-> "idle", n |-> 0, buf |-> <<>>, c0 |-> FALSE, e0 |-> FALSE]

InitPipe ==
  /\ pipe = NewPipe
  /\ waiters = {}
  /\ pendSig = 0
  /\ rd = [r \in Readers |-> IdleRd]
  /\ out = <<>>
  /\ nw = 0
  /\ hist = [eofSeen |-> FALSE, lateWrite |-> FALSE, overlap |-> FALSE]

\* Read returns (Len(items), err) to its caller
ReadReturn(r, items, err) ==
  /\ out' = out \o items
  /\ hist' = [hist EXCEPT !.eofSeen = @ \/ (err = "EOF")]
  /\ rd' = [rd EXCEPT ![r] = IdleRd]

\* Pipe.Read is entered with a buffer of n items (line 28)
ReadBegin(r, n) ==
  /\ rd[r].pc = "idle"
  /\ rd' = [rd EXCEPT ![r] = [pc |-> "get", n |-> n, buf |-> <<>>,
                              c0 |-> pipe.cancelled, e0 |-> hist.eofSeen]]
  /\ hist' = [hist EXCEPT !.overlap = @ \/ (\E x \in Readers : x /= r /\ rd[x].pc /= "idle")]
  /\ UNCHANGED <<pipe, waiters, pendSig, out, nw>>
  /\ UNCHANGED <<sioVars, trVars, sidVars>>

\* Pipe.Read, lines 30-49: one p.queue.Get() of the loop (pc "get"), or the
\* second Get after runtime.Gosched() (pc "retry"), and what follows it.
ReadGet(r) ==
  /\ rd[r].pc \in {"get", "retry"}
  /\ UNCHANGED <<waiters, pendSig, nw>>
  /\ UNCHANGED <<sioVars, trVars, sidVars>>
  /\ IF QueueGetOk(pipe.queue)
     THEN LET buf == Append(rd[r].buf, QueueGetVal(pipe.queue))
          IN /\ pipe' = [pipe EXCEPT !.queue = QueueGetRest(@)]
             /\ IF PipeLoopDone(Len(buf), rd[r].n)
                THEN ReadReturn(r, buf, "nil")
                ELSE /\ rd' = [rd EXCEPT ![r].buf = buf, ![r].pc = "get"]
                     /\ UNCHANGED <<out, hist>>
     ELSE /\ UNCHANGED pipe
          /\ IF PipeGetMiss(Len(rd[r].buf), rd[r].pc = "retry") = "gosched"
             THEN /\ rd' = [rd EXCEPT ![r].pc = "retry"]
                  /\ UNCHANGED <<out, hist>>
             ELSE IF PipeAfterLoop(Len(rd[r].buf)) = "return"
                  THEN ReadReturn(r, rd[r].buf, "nil")
                  ELSE /\ rd' = [rd EXCEPT ![r].pc = "lock"]
                       /\ UNCHANGED <<out, hist>>

\* Pipe.Read, lines 52-69: the locked loop; one evaluation of it.
ReadCheck(r) ==
  /\ rd[r].pc = "lock"
  /\ UNCHANGED <<pipe, pendSig, nw>>
  /\ UNCHANGED <<sioVars, trVars, sidVars>>
  /\ LET c == PipeCheck(pipe)
     IN CASE c = "again" -> /\ rd' = [rd EXCEPT ![r].pc = "get"]
                            /\ UNCHANGED <<waiters, out, hist>>
          [] c = "eof"   -> /\ ReadReturn(r, <<>>, "EOF")
                            /\ UNCHANGED waiters
          [] OTHER       -> /\ rd' = [rd EXCEPT ![r].pc = "wait"]
                            /\ waiters' = waiters \cup {r}
                            /\ UNCHANGED <<out, hist>>

\* p.cond.Signal() (lines 76 and 83): wakes one waiter, if there is one; the
\* woken reader re-enters the locked loop.
Signal ==
  /\ pendSig > 0
  /\ pendSig' = pendSig - 1
  /\ IF waiters = {}
     THEN UNCHANGED <<waiters, rd>>
     ELSE \E w \in waiters :
            /\ waiters' = waiters \ {w}
            /\ rd' = [rd EXCEPT ![w].pc = "lock"]
  /\ UNCHANGED <<pipe, out, nw, hist>>
  /\ UNCHANGED <<sioVars, trVars, sidVars>>

\* Pipe.Write(item), lines 72-75 (the Signal of line 76 is the step above)
Write ==
  /\ nw < MaxWrites
  /\ pendSig < MaxCallers
  /\ pipe' = PipeWriteAdd(pipe, nw + 1)
  /\ nw' = nw + 1
  /\ pendSig' = pendSig + 1
  /\ hist' = [hist EXCEPT !.lateWrite = @ \/ pipe.closed]
  /\ UNCHANGED <<waiters, rd, out>>
  /\ UNCHANGED <<sioVars, trVars, sidVars>>

\* Pipe.Close(), lines 79-82 (the Signal of line 83 is the step above)
Close ==
  /\ pendSig < MaxCallers
  /\ pipe' = PipeCloseSet(pipe)
  /\ pendSig' = pendSig + 1
  /\ UNCHANGED <<waiters, rd, out, nw, hist>>
  /\ UNCHANGED <<sioVars, trVars, sidVars>>

\* Pipe.Cancel(): the state change, and every waiter is woken
Cancel ==
  /\ ~pipe.cancelled
  /\ pipe' = PipeCancelSet(pipe)
  /\ waiters' = {}
  /\ rd' = [x \in Readers |-> IF x \in waiters THEN [rd[x] EXCEPT !.pc = "lock"] ELSE rd[x]]
  /\ UNCHANGED <<pendSig, out, nw, hist>>
  /\ UNCHANGED <<sioVars, trVars, sidVars>>

NextPipe ==
  \/ \E r \in Readers, n \in 1..MaxBuf : ReadBegin(r, n)
  \/ \E r \in Readers : ReadGet(r)
  \/ \E r \in Readers : ReadCheck(r)
  \/ Signal
  \/ Write
  \/ Close
  \/ Cancel

\* ---------------------------------------------------------------- streamIO
\* newStreamIO (lines 125-132): a new pipe, no exception, both flags 0.
\* cb: whether a closeCallback is installed on the streamIO.
\* cbCount counts the invocations of closeCallback (line 168).
NewStreamIO(cb) ==
  [pipe |-> NewPipe, exception |-> "nil", eofFlag |-> 0, callbackFlag |-> 0,
   hasCb |-> cb, cbCount |-> 0, streamClosed |-> FALSE]

\* (mutant) the callback run without the compare-and-swap on callbackFlag
MutRunCloseCallback(s) ==
  IF s.hasCb THEN [s EXCEPT !.callbackFlag = 1, !.cbCount = @ + 1] ELSE s

\* streamIO.runCloseCallback, lines 166-170
RunCloseCallback(s) ==
  IF s.hasCb /\ s.callbackFlag = 0
  THEN [s EXCEPT !.callbackFlag = 1, !.cbCount = @ + 1]
  ELSE s

\* (mutant) the add as a load and a store that loses the other add
MutSioAddEof(s) == [s EXCEPT !.eofFlag = 1]

\* atomic.AddInt32(&s.eofFlag, 1), lines 174 and 180
SioAddEof(s) == [s EXCEPT !.eofFlag = @ + 1]

\* s.pipe.Close(), lines 173 and 186
SioPipeClose(s) == [s EXCEPT !.pipe = PipeCloseSet(@)]

\* s.pipe.Cancel(), line 192
SioPipeCancel(s) == [s EXCEPT !.pipe = PipeCancelSet(@)]

\* s.stream.close(), lines 187 and 193 (stream.go is not in the sources:
\* the stream reaches its terminal Closed state)
SioStreamClose(s) == [s EXCEPT !.streamClosed = TRUE]

\* lines 174 and 180: closeCallback != nil && AddInt32(&eofFlag, 1) == 2
SioHalfClose(s) ==
  IF s.hasCb
  THEN LET s2 == SioAddEof(s)
       IN IF s2.eofFlag = 2 THEN RunCloseCallback(s2) ELSE s2
  ELSE s

\* streamIO.closeRecv, lines 172-177, run without interleaving
SioCloseRecv(s) == SioHalfClose(SioPipeClose(s))

\* streamIO.closeSend, lines 179-183, run without interleaving
SioCloseSend(s) == SioHalfClose(s)

\* streamIO.close, lines 185-189, run without interleaving
SioClose(s) == RunCloseCallback(SioStreamClose(SioPipeClose(s)))

\* streamIO.cancel, lines 191-195, run without interleaving
SioCancel(s) == RunCloseCallback(SioStreamClose(SioPipeCancel(s)))

\* streamIO.input, lines 134-139: s.pipe.Write(msg); an error would only be
\* logged
SioInput(s, msg) == [s EXCEPT !.pipe = PipeWriteAdd(@, msg)]

\* Pipe.Read (lines 27-70) run without interleaving on a pipe that does not
\* make it wait: up to n items from the head, or EOF on an empty closed pipe
PipeReadBlocks(p) == PipeCheck(p) = "wait"

PipeReadNow(p, n) ==
  IF PipeCheck(p) = "again"
  THEN LET m == Min(n, QueueSize(p.queue))
       IN [m |-> m, items |-> SubSeq(p.queue, 1, m), err |-> "nil",
           pipe |-> [p EXCEPT !.queue = SubSeq(@, m + 1, Len(@))]]
  ELSE [m |-> 0, items |-> <<>>, err |-> "EOF", pipe |-> p]

\* (mutant) output without the test of s.exception of line 142
MutSioOutput(s) ==
  LET r == PipeReadNow(s.pipe, 1)
  IN IF r.err /= "nil" \/ r.m = 0
     THEN [io |-> [s EXCEPT !.exception = "EOF"], msg |-> 0, err |-> "EOF"]
     ELSE [io |-> [s EXCEPT !.pipe = r.pipe], msg |-> r.items[1], err |-> "nil"]

\* streamIO.output, lines 141-164, on a streamIO whose pipe does not make it
\* wait: [io, msg, err]
SioOutput(s) ==
  IF s.exception /= "nil"
  THEN [io |-> s, msg |-> 0, err |-> s.exception]
  ELSE LET r == PipeReadNow(s.pipe, 1)
       IN IF r.err /= "nil"
          THEN [io |-> [s EXCEPT !.exception = "EOF"], msg |-> 0, err |-> "EOF"]
          ELSE IF r.m = 0
          THEN [io |-> [s EXCEPT !.exception = "EOF"], msg |-> 0, err |-> "EOF"]
          ELSE [io |-> [s EXCEPT !.pipe = r.pipe], msg |-> r.items[1], err |-> "nil"]

SioOutputBlocks(s) == s.exception = "nil" /\ PipeReadBlocks(s.pipe)

\* -------------------------------------------------- SpecSIO: the goroutines
Threads == {"t1", "t2", "t3"}

SioMethods == {"closeRecv", "closeSend", "close", "cancel"}

IdleT == [m |-> "none", pc |-> "idle"]

\* no output call has returned yet. got: the messages returned; last: the
\* error of the last call
NoOutput == [got |-> <<>>, last |-> "none"]

InitSIO ==
  /\ sio = NewStreamIO(FALSE)
  /\ tpc = [t \in Threads |-> IdleT]
  /\ ncalls = 0
  /\ called = {}
  /\ done = {}
  /\ nin = 0
  /\ olog = NoOutput

\* the first statement of each method
SioFirst(m) ==
  CASE m = "closeRecv" -> "pclose"
    [] m = "closeSend" -> "add"
    [] m = "close"     -> "pclose"
    [] m = "cancel"    -> "pcancel"

\* a closeCallback is installed on the streamIO (field closeCallback,
\* line 122) before the streamIO is used
SioSetCallback ==
  /\ ~sio.hasCb
  /\ ncalls = 0
  /\ sio' = [sio EXCEPT !.hasCb = TRUE]
  /\ UNCHANGED <<tpc, ncalls, called, done, nin, olog, pipeVars, trVars, sidVars>>

\* a goroutine calls a method of the streamIO
SioCall(t, m) ==
  /\ tpc[t].pc = "idle"
  /\ ncalls < MaxCalls
  /\ ncalls' = ncalls + 1
  /\ tpc' = [tpc EXCEPT ![t] = [m |-> m, pc |-> SioFirst(m)]]
  /\ called' = called \cup {m}
  /\ UNCHANGED <<sio, done, nin, olog, pipeVars, trVars, sidVars>>

\* s.pipe.Close(): line 173 of closeRecv, line 186 of close
SioStepPipeClose(t) ==
  /\ tpc[t].pc = "pclose"
  /\ sio' = SioPipeClose(sio)
  /\ tpc' = [tpc EXCEPT ![t].pc = IF tpc[t].m = "closeRecv" THEN "add" ELSE "sclose"]
  /\ UNCHANGED <<ncalls, called, done, nin, olog, pipeVars, trVars, sidVars>>

\* s.pipe.Cancel(): line 192
SioStepPipeCancel(t) ==
  /\ tpc[t].pc = "pcancel"
  /\ sio' = SioPipeCancel(sio)
  /\ tpc' = [tpc EXCEPT ![t].pc = "sclose"]
  /\ UNCHANGED <<ncalls, called, done, nin, olog, pipeVars, trVars, sidVars>>

\* s.stream.close(): lines 187 and 193
SioStepStreamClose(t) ==
  /\ tpc[t].pc = "sclose"
  /\ sio' = SioStreamClose(sio)
  /\ tpc' = [tpc EXCEPT ![t].pc = "cb"]
  /\ UNCHANGED <<ncalls, called, done, nin, olog, pipeVars, trVars, sidVars>>

\* lines 174 and 180: the nil test and the atomic add
SioStepAdd(t) ==
  /\ tpc[t].pc = "add"
  /\ UNCHANGED <<ncalls, called, nin, olog, pipeVars, trVars, sidVars>>
  /\ IF sio.hasCb
     THEN /\ sio' = SioAddEof(sio)
          /\ tpc' = [tpc EXCEPT ![t] = IF sio'.eofFlag = 2
                                        THEN [tpc[t] EXCEPT !.pc = "cb"] ELSE IdleT]
     ELSE /\ tpc' = [tpc EXCEPT ![t] = IdleT]
          /\ UNCHANGED sio
  /\ done' = IF tpc'[t].pc = "idle" THEN done \cup ({tpc[t].m} \cap {"closeSend", "closeRecv"}) ELSE done

\* s.runCloseCallback(): lines 175, 181, 188 and 194
SioStepCallback(t) ==
  /\ tpc[t].pc = "cb"
  /\ sio' = RunCloseCallback(sio)
  /\ tpc' = [tpc EXCEPT ![t] = IdleT]
  /\ done' = done \cup ({tpc[t].m} \cap {"closeSend", "closeRecv"})
  /\ UNCHANGED <<ncalls, called, nin, olog, pipeVars, trVars, sidVars>>

\* the reader loop hands the next message to streamIO.input (lines 134-139)
SioInputCall ==
  /\ nin < MaxWrites
  /\ nin' = nin + 1
  /\ sio' = SioInput(sio, nin + 1)
  /\ UNCHANGED <<tpc, ncalls, called, done, olog, pipeVars, trVars, sidVars>>

\* the consumer's streamIO.output call (lines 141-164) returns
SioOutputCall ==
  /\ ~SioOutputBlocks(sio)
  /\ LET r == SioOutput(sio)
     IN /\ sio' = r.io
        /\ olog' = [got  |-> IF r.err = "nil" THEN Append(olog.got, r.msg) ELSE olog.got,
                    last |-> r.err]
  /\ UNCHANGED <<tpc, ncalls, called, done, nin, pipeVars, trVars, sidVars>>

NextSIO ==
  \/ SioSetCallback
  \/ SioInputCall
  \/ SioOutputCall
  \/ \E t \in Threads, m \in SioMethods : SioCall(t, m)
  \/ \E t \in Threads : SioStepPipeClose(t)
  \/ \E t \in Threads : SioStepPipeCancel(t)
  \/ \E t \in Threads : SioStepStreamClose(t)
  \/ \E t \in Threads : SioStepAdd(t)
  \/ \E t \in Threads : SioStepCallback(t)


\* ---------------------------------------------------------------- transport
clientTransport == 1

serverTransport == 2

Kinds == {clientTransport, serverTransport}

\* the transport at the other end of the connection
Peer(k) == IF k = clientTransport THEN serverTransport ELSE clientTransport

Sids == 1..MaxStreams

\* streams and frames of a run of several streams next to each other
MuxStreams == MaxStreams + 1

MuxFrames == MaxFrames + 1

\* the sids the registries and histories are defined on
AllSids == 1..MuxStreams

\* capacity of t.wchannel (32 in the source, scaled down here)
frameChanSize == 2

\* length of the batch readStream takes from t.spipe (32 in the source,
\* scaled down here)
streamCacheSize == 2

\* the methods of the service (t.sinfo)
Methods == {"echo"}

\* t.sinfo.MethodInfo(method) finds the method (serviceinfo is not in the
\* sources: the method directory of the specification)
MethodKnown(method) == method \in Methods

\* newFrame(meta, ftype, payload); hd: the header map is not empty; the
\* frames of the stream layer name a method of the service
Frame(typ, sid, hd, payload) ==
  [typ |-> typ, sid |-> sid, method |-> "echo", hd |-> hd, payload |-> payload]

\* a payload that is not an encoding of the message type the receiver
\* expects (the payloads of sendMessage are 1, 2, ...)
Undecodable == 0

\* a message the codec cannot encode, standing in the frame for the
\* payload writeFrame has still to encode
Unencodable == 0 - 1

\* (mutant) every message is encoded
MutEncodePayload(data) == "nil"

\* EncodePayload (external codec): the error it returns
EncodePayload(data) == IF data = Unencodable THEN "Codec" ELSE "nil"

\* DecodePayload (external codec): the error it returns
DecodePayload(payload) == IF payload = Undecodable THEN "Codec" ELSE "nil"

\* transport.streamRecv, lines 242-250: the error returned after
\* sio.output() returned oerr and, when that is nil, DecodePayload returned
\* derr; line 246 assigns derr to err and line 250 returns nil
StreamRecvErr(oerr, derr) == IF oerr /= "nil" THEN oerr ELSE "nil"

\* (mutant) the frame put in front of the frames already queued
MutChanSend(ch, frame) == <<frame>> \o ch

\* t.wchannel <- frame (writeFrame, line 197)
ChanSend(ch, frame) == Append(ch, frame)

\* transport.streamSendHeader, lines 229-231: the frame it writes
StreamSendHeader(sid, hd) == Frame("header", sid, hd, 0)

\* transport.streamSendTrailer, lines 233-235: the frame it writes
StreamSendTrailer(sid) == Frame("trailer", sid, FALSE, 0)

\* transport.streamSend, lines 219-227: the frames it writes, in order; a
\* Header only when len(wheader) > 0
StreamSend(sid, wheader, res) ==
  (IF wheader THEN <<StreamSendHeader(sid, TRUE)>> ELSE <<>>)
     \o <<Frame("data", sid, FALSE, res)>>

\* an entry of t.streams; reg: the key is present
NoEntry == [reg |-> FALSE, io |-> NewStreamIO(FALSE)]

\* (mutant) nothing is stored
MutStoreStreamIO(m, sid, cb) == m

\* transport.storeStreamIO, lines 86-88
StoreStreamIO(m, sid, cb) == [m EXCEPT ![sid] = [reg |-> TRUE, io |-> NewStreamIO(cb)]]

\* (mutant) every Data payload handed to the streamIO of sid 1
MutDispatchData(m, fr) == [m EXCEPT ![1].io = SioInput(@, fr.payload)]

\* transport.loopRead, lines 143-150: the payload goes to the streamIO
\* registered under the sid of the frame
DispatchData(m, fr) == [m EXCEPT ![fr.sid].io = SioInput(@, fr.payload)]

\* (mutant) every sid is found
MutLoadStreamIO(m, sid) == TRUE

\* transport.loadStreamIO, lines 90-97: the ok result
LoadStreamIO(m, sid) == m[sid].reg

\* transport.streamClose, lines 271-275: t.streams.Delete(s.sid)
StreamClose(m, sid) == [m EXCEPT ![sid].reg = FALSE]

\* ---------------------------------------------------------------- stream
\* The stream type (stream.go) is not in the sources: its fields and its
\* operations follow the specification (data model and 4.C). h: "none" no
\* stream object, "pend" created by the reader loop and waiting in the
\* accept pipe or cache, "app" held by the application. pend: the frames
\* its caller has still to hand to t.wchannel. lastErr: result of the last
\* sendMessage. recving: a recvMessage of its caller is waiting in
\* Pipe.Read.
NoStream ==
  [h |-> "none", headerSent |-> FALSE, trailerSent |-> FALSE, sendClosed |-> FALSE,
   nsent |-> 0, pend |-> <<>>, lastErr |-> "nil", recving |-> FALSE]

\* (mutant) sendMessage without the sendClosed test
MutStreamSendAllowed(s) == TRUE

\* sendMessage: "Fails with Closed if sendClosed"
StreamSendAllowed(s) == ~s.sendClosed

\* closeSend is idempotent: it acts only while the send half is open
StreamCloseSendActs(s) == ~s.sendClosed

\* (mutant) the Trailer emitted whatever trailerSent says
MutStreamTrailerFrames(s, sid) == <<StreamSendTrailer(sid)>>

\* the Trailer is emitted at most once (trailerSent is set at most once)
StreamTrailerFrames(s, sid) == IF s.trailerSent THEN <<>> ELSE <<StreamSendTrailer(sid)>>

\* closeSend(): emits the Trailer, sets sendClosed, counts the local
\* half-close on the streamIO; [s, e, frames] from stream s and entry e
StreamCloseSend(s, e, sid) ==
  IF StreamCloseSendActs(s)
  THEN [s |-> [s EXCEPT !.trailerSent = TRUE, !.sendClosed = TRUE,
                        !.pend = StreamTrailerFrames(s, sid)],
        e |-> IF e.reg THEN [e EXCEPT !.io = SioCloseSend(@)] ELSE e,
        frames |-> StreamTrailerFrames(s, sid)]
  ELSE [s |-> s, e |-> e, frames |-> <<>>]

\* cancel(): transport.streamCancel (lines 262-269) runs sio.cancel(), whose
\* stream.close() takes the stream off the registry (transport.streamClose);
\* then the Trailer is emitted and both halves are marked closed
StreamCancel(s, e, sid) ==
  [s |-> [s EXCEPT !.trailerSent = TRUE, !.sendClosed = TRUE,
                   !.pend = StreamTrailerFrames(s, sid)],
   e |-> IF e.reg THEN [reg |-> FALSE, io |-> SioCancel(e.io)] ELSE e,
   frames |-> StreamTrailerFrames(s, sid)]

\* atomic.AddInt32(&clientStreamID, 1), line 289: two's complement
\* addition on IdBits bits, no test of the result
NextSid(c) == ((c + 1 + 2^(IdBits - 1)) % 2^IdBits) - 2^(IdBits - 1)

InitTr ==
  /\ wchannel = [k \in Kinds |-> <<>>]
  /\ wbuf = [k \in Kinds |-> <<>>]
  /\ wire = [k \in Kinds |-> <<>>]
  /\ lw = [k \in Kinds |-> "recv"]
  /\ streams = [k \in Kinds |-> [sid \in AllSids |-> NoEntry]]
  /\ spipe = [k \in Kinds |-> NewPipe]
  /\ scache = [k \in Kinds |-> <<>>]
  /\ clientStreamID = 0
  /\ st = [k \in Kinds |-> [sid \in AllSids |-> NoStream]]
  /\ nframes = 0
  /\ sent = [k \in Kinds |-> [sid \in AllSids |-> <<>>]]
  /\ disp = [k \in Kinds |-> [sid \in AllSids |-> <<>>]]
  /\ recvd = [k \in Kinds |-> [sid \in AllSids |-> <<>>]]
  /\ wclosed = [k \in Kinds |-> FALSE]
  /\ connClosed = [k \in Kinds |-> FALSE]
  /\ lr = [k \in Kinds |-> "run"]
  /\ panicked = [k \in Kinds |-> "no"]

\* the process of transport k runs: no panic has ended it
Alive(k) == panicked[k] = "no"

\* transport.newStream, lines 282-300 (client): a new sid, the stream is
\* created and registered, the initiating Header goes to writeFrame; in a
\* run of at most maxStreams streams and maxFrames frames
NewStreamIn(cb, maxStreams, maxFrames) ==
  LET k == clientTransport
      sid == NextSid(clientStreamID)
  IN /\ Alive(k)
     /\ clientStreamID < maxStreams
     /\ nframes < maxFrames
     /\ clientStreamID' = sid
     /\ streams' = [streams EXCEPT ![k] = StoreStreamIO(@, sid, cb)]
     /\ st' = [st EXCEPT ![k][sid] =
                 [NoStream EXCEPT !.h = "app", !.headerSent = TRUE,
                                  !.pend = <<StreamSendHeader(sid, TRUE)>>]]
     /\ nframes' = nframes + 1
     /\ UNCHANGED <<wchannel, wbuf, wire, lw, spipe, scache, sent, disp, recvd>>
     /\ UNCHANGED <<wclosed, connClosed, lr, panicked>>
     /\ UNCHANGED <<pipeVars, sioVars, sidVars>>

NewStream(cb) == NewStreamIn(cb, MaxStreams, MaxFrames)

\* t.wchannel, a channel of capacity frameChanSize (line 69), is full
ChanFull(ch) == Len(ch) >= frameChanSize

\* transport.writeFrame, lines 187-199: the payload is encoded first, and an
\* error of EncodePayload is returned with nothing sent (lines 189-195; the
\* caller, streamSend, returns it and writes no further frame); else the
\* frame goes to t.wchannel, which makes the caller wait while it is full;
\* the send on a closed channel panics (line 197 has no test and no recover)
WriteFrame(k, sid) ==
  /\ Alive(k)
  /\ st[k][sid].pend /= <<>>
  /\ UNCHANGED <<wbuf, wire, lw, streams, spipe, scache, clientStreamID, nframes, disp, recvd>>
  /\ UNCHANGED <<wclosed, connClosed, lr>>
  /\ UNCHANGED <<pipeVars, sioVars, sidVars>>
  /\ IF Head(st[k][sid].pend).typ = "data"
          /\ EncodePayload(Head(st[k][sid].pend).payload) /= "nil"
     THEN /\ st' = [st EXCEPT ![k][sid].pend = <<>>,
                              ![k][sid].lastErr = EncodePayload(Head(st[k][sid].pend).payload)]
          /\ UNCHANGED <<wchannel, sent, panicked>>
     ELSE IF wclosed[k]
     THEN /\ panicked' = [panicked EXCEPT ![k] = "send"]
          /\ UNCHANGED <<wchannel, sent, st>>
     ELSE /\ ~ChanFull(wchannel[k])
          /\ wchannel' = [wchannel EXCEPT ![k] = ChanSend(@, Head(st[k][sid].pend))]
          /\ sent' = [sent EXCEPT ![k][sid] = Append(@, Head(st[k][sid].pend).typ)]
          /\ st' = [st EXCEPT ![k][sid].pend = Tail(@)]
          /\ UNCHANGED panicked

\* stream.sendMessage(v) -> transport.streamSend(sid, method, wheader, v);
\* hd: the header map the stream still holds is not empty; in a run of at
\* most maxFrames frames
SendMessageIn(k, sid, hd, maxFrames) ==
  LET s == st[k][sid]
      wh == IF s.headerSent THEN FALSE ELSE hd
      frames == StreamSend(sid, wh, s.nsent + 1)
  IN /\ Alive(k)
     /\ s.h = "app"
     /\ s.pend = <<>>
     /\ UNCHANGED <<wchannel, wbuf, wire, lw, streams, spipe, scache, clientStreamID,
                    sent, disp, recvd>>
     /\ UNCHANGED <<wclosed, connClosed, lr, panicked>>
     /\ UNCHANGED <<pipeVars, sioVars, sidVars>>
     /\ IF StreamSendAllowed(s)
        THEN /\ nframes + Len(frames) <= maxFrames
             /\ nframes' = nframes + Len(frames)
             /\ st' = [st EXCEPT ![k][sid] =
                         [s EXCEPT !.headerSent = TRUE, !.nsent = @ + 1,
                                   !.pend = frames, !.lastErr = "nil"]]
        ELSE /\ st' = [st EXCEPT ![k][sid].lastErr = "Closed"]
             /\ UNCHANGED nframes

SendMessage(k, sid, hd) == SendMessageIn(k, sid, hd, MaxFrames)

\* stream.sendMessage(v) of a message v the codec cannot encode
SendUnencodable(k, sid, hd) ==
  LET s == st[k][sid]
      wh == IF s.headerSent THEN FALSE ELSE hd
      frames == StreamSend(sid, wh, Unencodable)
  IN /\ Alive(k)
     /\ s.h = "app"
     /\ s.pend = <<>>
     /\ StreamSendAllowed(s)
     /\ nframes + Len(frames) <= MaxFrames
     /\ nframes' = nframes + Len(frames)
     /\ st' = [st EXCEPT ![k][sid] =
                 [s EXCEPT !.headerSent = TRUE, !.pend = frames, !.lastErr = "nil"]]
     /\ UNCHANGED <<wchannel, wbuf, wire, lw, streams, spipe, scache, clientStreamID,
                    sent, disp, recvd>>
     /\ UNCHANGED <<wclosed, connClosed, lr, panicked>>
     /\ UNCHANGED <<pipeVars, sioVars, sidVars>>

\* stream.closeSend()
CloseSend(k, sid) ==
  LET r == StreamCloseSend(st[k][sid], streams[k][sid], sid)
  IN /\ Alive(k)
     /\ st[k][sid].h = "app"
     /\ st[k][sid].pend = <<>>
     /\ nframes + Len(r.frames) <= MaxFrames
     /\ nframes' = nframes + Len(r.frames)
     /\ st' = [st EXCEPT ![k][sid] = r.s]
     /\ streams' = [streams EXCEPT ![k][sid] = r.e]
     /\ UNCHANGED <<wchannel, wbuf, wire, lw, spipe, scache, clientStreamID, sent, disp, recvd>>
     /\ UNCHANGED <<wclosed, connClosed, lr, panicked>>
     /\ UNCHANGED <<pipeVars, sioVars, sidVars>>

\* stream.cancel()
CancelStream(k, sid) ==
  LET r == StreamCancel(st[k][sid], streams[k][sid], sid)
  IN /\ Alive(k)
     /\ st[k][sid].h = "app"
     /\ st[k][sid].pend = <<>>
     /\ nframes + Len(r.frames) <= MaxFrames
     /\ nframes' = nframes + Len(r.frames)
     /\ st' = [st EXCEPT ![k][sid] = r.s]
     /\ streams' = [streams EXCEPT ![k][sid] = r.e]
     /\ UNCHANGED <<wchannel, wbuf, wire, lw, spipe, scache, clientStreamID, sent, disp, recvd>>
     /\ UNCHANGED <<wclosed, connClosed, lr, panicked>>
     /\ UNCHANGED <<pipeVars, sioVars, sidVars>>

\* what a streamRecv whose output call returns r leaves behind; recvd: the
\* payloads of the calls that returned nil to recvMessage
RecvDone(k, sid, r) ==
  /\ streams' = [streams EXCEPT ![k][sid].io = r.io]
  /\ st' = [st EXCEPT ![k][sid].recving = FALSE]
  /\ recvd' = IF StreamRecvErr(r.err, DecodePayload(r.msg)) = "nil"
              THEN [recvd EXCEPT ![k][sid] = Append(@, r.msg)]
              ELSE recvd

\* stream.recvMessage -> transport.streamRecv, lines 237-251, of a call
\* that does not have to wait: EOF when the sid is not registered, else
\* what sio.output() returns
RecvMessage(k, sid) ==
  /\ Alive(k)
  /\ st[k][sid].h = "app"
  /\ ~st[k][sid].recving
  /\ UNCHANGED <<wchannel, wbuf, wire, lw, spipe, scache, clientStreamID, nframes, sent, disp>>
  /\ UNCHANGED <<wclosed, connClosed, lr, panicked>>
  /\ UNCHANGED <<pipeVars, sioVars, sidVars>>
  /\ IF ~LoadStreamIO(streams[k], sid)
     THEN UNCHANGED <<st, streams, recvd>>
     ELSE /\ ~SioOutputBlocks(streams[k][sid].io)
          /\ RecvDone(k, sid, SioOutput(streams[k][sid].io))

\* transport.streamRecv, lines 237-242, of a call that has to wait: the
\* streamIO is loaded and output waits in Pipe.Read on the empty open pipe
RecvBlock(k, sid) ==
  /\ Alive(k)
  /\ st[k][sid].h = "app"
  /\ ~st[k][sid].recving
  /\ LoadStreamIO(streams[k], sid)
  /\ SioOutputBlocks(streams[k][sid].io)
  /\ st' = [st EXCEPT ![k][sid].recving = TRUE]
  /\ UNCHANGED <<wchannel, wbuf, wire, lw, streams, spipe, scache, clientStreamID, nframes,
                 sent, disp, recvd>>
  /\ UNCHANGED <<wclosed, connClosed, lr, panicked>>
  /\ UNCHANGED <<pipeVars, sioVars, sidVars>>

\* the streamRecv waiting in Pipe.Read (lines 47-69) of its streamIO is
\* woken by a Write, a Close or a Cancel of the pipe, and output returns
RecvWake(k, sid) ==
  /\ Alive(k)
  /\ st[k][sid].recving
  /\ ~SioOutputBlocks(streams[k][sid].io)
  /\ RecvDone(k, sid, SioOutput(streams[k][sid].io))
  /\ UNCHANGED <<wchannel, wbuf, wire, lw, spipe, scache, clientStreamID, nframes, sent, disp>>
  /\ UNCHANGED <<wclosed, connClosed, lr, panicked>>
  /\ UNCHANGED <<pipeVars, sioVars, sidVars>>

\* transport.loopWrite, lines 169-176: a frame is taken from t.wchannel and
\* encoded into the writer
LoopWriteRecv(k) ==
  /\ Alive(k)
  /\ lw[k] = "recv"
  /\ wchannel[k] /= <<>>
  /\ wchannel' = [wchannel EXCEPT ![k] = Tail(@)]
  /\ wbuf' = [wbuf EXCEPT ![k] = Append(@, Head(wchannel[k]))]
  /\ lw' = [lw EXCEPT ![k] = "flush"]
  /\ UNCHANGED <<wire, streams, spipe, scache, clientStreamID, st, nframes, sent, disp, recvd>>
  /\ UNCHANGED <<wclosed, connClosed, lr, panicked>>
  /\ UNCHANGED <<pipeVars, sioVars, sidVars>>

\* transport.loopWrite, lines 170-173: the receive from the closed and
\* empty channel returns !ok and the loop returns nil
LoopWriteExit(k) ==
  /\ Alive(k)
  /\ lw[k] = "recv"
  /\ wchannel[k] = <<>>
  /\ wclosed[k]
  /\ lw' = [lw EXCEPT ![k] = "done"]
  /\ UNCHANGED <<wchannel, wbuf, wire, streams, spipe, scache, clientStreamID, st, nframes,
                 sent, disp, recvd>>
  /\ UNCHANGED <<wclosed, connClosed, lr, panicked>>
  /\ UNCHANGED <<pipeVars, sioVars, sidVars>>

\* the connection is broken: one of its ends has been closed
ConnBroken == \E k \in Kinds : connClosed[k]

\* (mutant) the channel taken to hold frames whenever the loop looks
MutChanEmpty(ch) == FALSE

\* transport.loopWrite, line 177: len(t.wchannel) == 0
ChanEmpty(ch) == Len(ch) = 0

\* transport.loopWrite, lines 177-181: flush when the channel is empty; the
\* loop returns the error of a Flush on a broken connection
LoopWriteFlush(k) ==
  /\ Alive(k)
  /\ lw[k] = "flush"
  /\ IF ~ChanEmpty(wchannel[k])
     THEN /\ lw' = [lw EXCEPT ![k] = "recv"]
          /\ UNCHANGED <<wire, wbuf>>
     ELSE IF ConnBroken
     THEN /\ lw' = [lw EXCEPT ![k] = "done"]
          /\ UNCHANGED <<wire, wbuf>>
     ELSE /\ lw' = [lw EXCEPT ![k] = "recv"]
          /\ wire' = [wire EXCEPT ![k] = @ \o wbuf[k]]
          /\ wbuf' = [wbuf EXCEPT ![k] = <<>>]
  /\ UNCHANGED <<wchannel, streams, spipe, scache, clientStreamID, st, nframes, sent, disp, recvd>>
  /\ UNCHANGED <<wclosed, connClosed, lr, panicked>>
  /\ UNCHANGED <<pipeVars, sioVars, sidVars>>

\* transport.loopRead, lines 101-162: one frame is decoded and dispatched.
LoopRead(k) ==
  /\ Alive(k)
  /\ lr[k] = "run"
  /\ ~connClosed[k]
  /\ wire[Peer(k)] /= <<>>
  /\ LET fr == Head(wire[Peer(k)])
         ok == LoadStreamIO(streams[k], fr.sid)
     IN /\ wire' = [wire EXCEPT ![Peer(k)] = Tail(@)]
        /\ CASE fr.typ = "header" /\ k = serverTransport ->
                  \* lines 125-130: newStream registers the stream's
                  \* streamIO. Line 126 calls StreamingMode() on what
                  \* MethodInfo returned without a test: for a method the
                  \* service does not have that is either a nil
                  \* dereference, which ends the process, or the mode of
                  \* whatever MethodInfo returned instead
                  \E crash \in (IF MethodKnown(fr.method) THEN {FALSE} ELSE BOOLEAN) :
                    IF crash
                    THEN /\ panicked' = [panicked EXCEPT ![k] = "method"]
                         /\ UNCHANGED <<streams, st, spipe, disp, lr>>
                    ELSE /\ streams' = [streams EXCEPT ![k] = StoreStreamIO(@, fr.sid, FALSE)]
                         /\ st' = [st EXCEPT ![k][fr.sid] = [NoStream EXCEPT !.h = "pend"]]
                         /\ spipe' = [spipe EXCEPT ![k] = PipeWriteAdd(@, fr.sid)]
                         /\ UNCHANGED <<disp, panicked, lr>>
             [] fr.typ = "data" /\ ok ->
                  \* lines 143-150
                  /\ streams' = [streams EXCEPT ![k] = DispatchData(@, fr)]
                  /\ disp' = [disp EXCEPT ![k][fr.sid] = Append(@, fr.payload)]
                  /\ UNCHANGED <<st, spipe, panicked, lr>>
             [] fr.typ = "trailer" /\ ok ->
                  \* lines 151-160: readTrailer -> streamCloseRecv (253-260)
                  /\ streams' = [streams EXCEPT ![k][fr.sid].io = SioCloseRecv(@)]
                  /\ UNCHANGED <<st, spipe, disp, panicked, lr>>
             [] fr.typ \notin {"meta", "header", "data", "trailer"} ->
                  \* a type that is no case of the switch, which has no
                  \* default: the loop goes on to the next frame, unless
                  \* DecodeFrame (not in the sources) returned an error
                  \* for it, which the loop returns (lines 106-109)
                  /\ \E rejected \in BOOLEAN :
                       lr' = [lr EXCEPT ![k] = IF rejected THEN "done" ELSE "run"]
                  /\ UNCHANGED <<streams, st, spipe, disp, panicked>>
             [] OTHER ->
                  \* unknown sid: logged, continue (lines 115-118, 133-136,
                  \* 145-148, 153-156); client Header and Meta of a
                  \* registered sid: nothing of the state here changes
                  /\ UNCHANGED <<streams, st, spipe, disp, panicked, lr>>
  /\ UNCHANGED <<wchannel, wbuf, lw, scache, clientStreamID, nframes, sent, recvd>>
  /\ UNCHANGED <<wclosed, connClosed>>
  /\ UNCHANGED <<pipeVars, sioVars, sidVars>>

\* transport.loopRead, lines 106-109: DecodeFrame returns an error (this end
\* closed) or EOF (the peer's end closed and all it flushed was read), and
\* the loop returns it; the goroutine of newTransport (lines 71-76) logs it
LoopReadErr(k) ==
  /\ Alive(k)
  /\ lr[k] = "run"
  /\ connClosed[k] \/ (connClosed[Peer(k)] /\ wire[Peer(k)] = <<>>)
  /\ lr' = [lr EXCEPT ![k] = "done"]
  /\ UNCHANGED <<wchannel, wbuf, wire, lw, streams, spipe, scache, clientStreamID, st,
                 nframes, sent, disp, recvd>>
  /\ UNCHANGED <<wclosed, connClosed, panicked>>
  /\ UNCHANGED <<pipeVars, sioVars, sidVars>>

\* (mutant) the stream returned is left in the cache
MutCachePop(cache) == [s |-> cache[Len(cache)], rest |-> cache]

\* transport.readStream, lines 309-313: the last stream of t.scache is
\* taken off it and returned
CachePop(cache) == [s |-> cache[Len(cache)], rest |-> SubSeq(cache, 1, Len(cache) - 1)]

\* transport.readStream, lines 304-326 (server): the last stream of the
\* cache, after the cache was filled from t.spipe when it was empty
ReadStream(k) ==
  /\ Alive(k)
  /\ k = serverTransport
  /\ scache[k] /= <<>> \/ ~PipeReadBlocks(spipe[k])
  /\ LET r == PipeReadNow(spipe[k], streamCacheSize)
         cache == IF scache[k] /= <<>> THEN scache[k] ELSE r.items
     IN /\ spipe' = [spipe EXCEPT ![k] = IF scache[k] /= <<>> THEN @ ELSE r.pipe]
        /\ IF cache = <<>>
           THEN UNCHANGED <<scache, st>>
           ELSE /\ scache' = [scache EXCEPT ![k] = CachePop(cache).rest]
                /\ st' = [st EXCEPT ![k][CachePop(cache).s].h = "app"]
  /\ UNCHANGED <<wchannel, wbuf, wire, lw, streams, clientStreamID, nframes, sent, disp, recvd>>
  /\ UNCHANGED <<wclosed, connClosed, lr, panicked>>
  /\ UNCHANGED <<pipeVars, sioVars, sidVars>>

\* transport.Close, lines 211-217: t.spipe.Close(), close(t.wchannel),
\* t.conn.Close(); close of a closed channel panics
TransportClose(k) ==
  /\ Alive(k)
  /\ spipe' = [spipe EXCEPT ![k] = PipeCloseSet(@)]
  /\ IF wclosed[k]
     THEN /\ panicked' = [panicked EXCEPT ![k] = "close"]
          /\ UNCHANGED <<wclosed, connClosed>>
     ELSE /\ wclosed' = [wclosed EXCEPT ![k] = TRUE]
          /\ connClosed' = [connClosed EXCEPT ![k] = TRUE]
          /\ UNCHANGED panicked
  /\ UNCHANGED <<wchannel, wbuf, wire, lw, streams, scache, clientStreamID, st, nframes,
                 sent, disp, recvd, lr>>
  /\ UNCHANGED <<pipeVars, sioVars, sidVars>>

Next ==
  \/ \E cb \in BOOLEAN : NewStream(cb)
  \/ \E k \in Kinds, sid \in Sids : WriteFrame(k, sid)
  \/ \E k \in Kinds, sid \in Sids, hd \in BOOLEAN : SendMessage(k, sid, hd)
  \/ \E k \in Kinds, sid \in Sids : CloseSend(k, sid)
  \/ \E k \in Kinds, sid \in Sids : CancelStream(k, sid)
  \/ \E k \in Kinds, sid \in Sids : RecvMessage(k, sid)
  \/ \E k \in Kinds : LoopWriteRecv(k)
  \/ \E k \in Kinds : LoopWriteFlush(k)
  \/ \E k \in Kinds : LoopRead(k)
  \/ \E k \in Kinds : ReadStream(k)

\* the frames a peer that is not bound by the stream layer can put on the
\* connection: a type the switch of loopRead does not name, a Meta frame,
\* a Header that names a method the service does not have, a Data frame
\* whose payload the codec of the receiver cannot decode
PeerFrames ==
  UNION {{[Frame("unknown", sid, FALSE, 1) EXCEPT !.method = ""],
          [Frame("meta", sid, FALSE, 1) EXCEPT !.method = ""],
          [Frame("header", sid, TRUE, 0) EXCEPT !.method = "none"],
          Frame("data", sid, FALSE, Undecodable)} : sid \in Sids}

\* the connection delivers to transport Peer(k) a frame written by such a
\* peer
PeerFrame(k, frame) ==
  /\ nframes < MaxFrames
  /\ ~ConnBroken
  /\ nframes' = nframes + 1
  /\ wire' = [wire EXCEPT ![k] = Append(@, frame)]
  /\ UNCHANGED <<wchannel, wbuf, lw, streams, spipe, scache, clientStreamID, st, sent,
                 disp, recvd>>
  /\ UNCHANGED <<wclosed, connClosed, lr, panicked>>
  /\ UNCHANGED <<pipeVars, sioVars, sidVars>>

\* the transports with such a peer
NextWire ==
  \/ \E cb \in BOOLEAN : NewStream(cb)
  \/ \E k \in Kinds, sid \in Sids : WriteFrame(k, sid)
  \/ \E k \in Kinds, sid \in Sids, hd \in BOOLEAN : SendMessage(k, sid, hd)
  \/ \E k \in Kinds, sid \in Sids : CancelStream(k, sid)
  \/ \E k \in Kinds, sid \in Sids : RecvMessage(k, sid)
  \/ \E k \in Kinds : LoopWriteRecv(k)
  \/ \E k \in Kinds : LoopWriteFlush(k)
  \/ \E k \in Kinds : LoopRead(k)
  \/ \E k \in Kinds : ReadStream(k)
  \/ \E k \in Kinds, frame \in PeerFrames : PeerFrame(k, frame)

\* --------------------------------------------------- stream id allocation
\* newStream calls of a run: enough for the counter to come back to its
\* first value
MaxIds == 2^IdBits + 1

InitSid == allocs = <<>>

\* the variables of the transports other than the counter
trOther == <<wchannel, wbuf, wire, lw, streams, spipe, scache, st, nframes, sent, disp,
             recvd, wclosed, connClosed, lr, panicked>>

\* transport.newStream, line 289: the caller obtains its sid
SidAlloc ==
  /\ Len(allocs) < MaxIds
  /\ clientStreamID' = NextSid(clientStreamID)
  /\ allocs' = Append(allocs, [sid |-> NextSid(clientStreamID), pc |-> "new"])
  /\ UNCHANGED <<trOther, pipeVars, sioVars>>

\* transport.newStream, lines 290-299: the stream of the i-th call is
\* created with its sid, its streamIO stored under the sid
\* (storeStreamIO, lines 86-88), and returned to the caller
SidStore(i) ==
  /\ allocs[i].pc = "new"
  /\ allocs' = [allocs EXCEPT ![i].pc = "live"]
  /\ UNCHANGED <<clientStreamID, trOther, pipeVars, sioVars>>

\* transport.streamClose, lines 271-275: the stream of the i-th call is
\* taken off the registry
SidClose(i) ==
  /\ allocs[i].pc = "live"
  /\ allocs' = [allocs EXCEPT ![i].pc = "closed"]
  /\ UNCHANGED <<clientStreamID, trOther, pipeVars, sioVars>>

NextSidAlloc ==
  \/ SidAlloc
  \/ \E i \in 1..MaxIds : i <= Len(allocs) /\ SidStore(i)
  \/ \E i \in 1..MaxIds : i <= Len(allocs) /\ SidClose(i)

\* several streams of one connection next to each other: newStream, sends,
\* the loops, readStream and recv
MuxNewStream(cb) == NewStreamIn(cb, MuxStreams, MuxFrames)

MuxSendMessage(k, sid, hd) == SendMessageIn(k, sid, hd, MuxFrames)

NextMux ==
  \/ \E cb \in BOOLEAN : MuxNewStream(cb)
  \/ \E k \in Kinds, sid \in AllSids : WriteFrame(k, sid)
  \/ \E k \in Kinds, sid \in AllSids, hd \in BOOLEAN : MuxSendMessage(k, sid, hd)
  \/ \E k \in Kinds, sid \in AllSids : RecvMessage(k, sid)
  \/ \E k \in Kinds : LoopWriteRecv(k)
  \/ \E k \in Kinds : LoopWriteFlush(k)
  \/ \E k \in Kinds : LoopRead(k)
  \/ \E k \in Kinds : ReadStream(k)

\* the transports with messages the codec cannot encode
NextEncode ==
  \/ \E cb \in BOOLEAN : NewStream(cb)
  \/ \E k \in Kinds, sid \in Sids : WriteFrame(k, sid)
  \/ \E k \in Kinds, sid \in Sids, hd \in BOOLEAN : SendMessage(k, sid, hd)
  \/ \E k \in Kinds, sid \in Sids, hd \in BOOLEAN : SendUnencodable(k, sid, hd)
  \/ \E k \in Kinds, sid \in Sids : CloseSend(k, sid)
  \/ \E k \in Kinds, sid \in Sids : RecvMessage(k, sid)
  \/ \E k \in Kinds : LoopWriteRecv(k)
  \/ \E k \in Kinds : LoopWriteFlush(k)
  \/ \E k \in Kinds : LoopRead(k)
  \/ \E k \in Kinds : ReadStream(k)

\* the streams a server accepts: newStream of the client, the loops,
\* readStream and transport.Close of the server
NextAccept ==
  \/ \E cb \in BOOLEAN : MuxNewStream(cb)
  \/ \E k \in Kinds, sid \in AllSids : WriteFrame(k, sid)
  \/ \E k \in Kinds : LoopWriteRecv(k)
  \/ \E k \in Kinds : LoopWriteFlush(k)
  \/ \E k \in Kinds : LoopRead(k)
  \/ \E k \in Kinds : LoopReadErr(k)
  \/ \E k \in Kinds : ReadStream(k)
  \/ TransportClose(serverTransport)

Init == InitPipe /\ InitSIO /\ InitTr /\ InitSid

SpecMux == Init /\ [][NextMux]_vars

SpecAccept == Init /\ [][NextAccept]_vars

SpecEncode == Init /\ [][NextEncode]_vars

SpecSid == Init /\ [][NextSidAlloc]_vars

SpecWire == Init /\ [][NextWire]_vars

\* the steps the goroutines inside Pipe.Read, Pipe.Write and Pipe.Close take
\* when they are scheduled: the Signal a Write or Close has still to make and
\* the steps of a reader that is not parked in p.cond.Wait()
PipeInternal ==
  \/ Signal
  \/ \E r \in Readers : ReadGet(r)
  \/ \E r \in Readers : ReadCheck(r)

SpecPipe == Init /\ [][NextPipe]_vars

SpecSIO == Init /\ [][NextSIO]_vars

Spec == Init /\ [][Next]_vars

\* the steps the goroutines of the loops, a producer inside writeFrame and
\* a consumer inside Pipe.Read take when they are scheduled; every other
\* step is a call the application is free not to make
Internal ==
  \/ \E k \in Kinds, sid \in Sids : WriteFrame(k, sid)
  \/ \E k \in Kinds, sid \in Sids : RecvWake(k, sid)
  \/ \E k \in Kinds : LoopWriteRecv(k)
  \/ \E k \in Kinds : LoopWriteFlush(k)
  \/ \E k \in Kinds : LoopWriteExit(k)
  \/ \E k \in Kinds : LoopRead(k)
  \/ \E k \in Kinds : LoopReadErr(k)

\* the transports with Close calls, the ends of the loops and recv calls
\* that wait
NextClose ==
  \/ \E cb \in BOOLEAN : NewStream(cb)
  \/ \E k \in Kinds, sid \in Sids, hd \in BOOLEAN : SendMessage(k, sid, hd)
  \/ \E k \in Kinds, sid \in Sids : CloseSend(k, sid)
  \/ \E k \in Kinds, sid \in Sids : CancelStream(k, sid)
  \/ \E k \in Kinds, sid \in Sids : RecvMessage(k, sid)
  \/ \E k \in Kinds, sid \in Sids : RecvBlock(k, sid)
  \/ \E k \in Kinds : ReadStream(k)
  \/ \E k \in Kinds : TransportClose(k)
  \/ Internal

SpecClose == Init /\ [][NextClose]_vars

\* ============================================================ Pipe claims
\* the items written so far, in the order of their Write calls
Written == [i \in 1..nw |-> i]

\* the items readers hold in their buffers (at most one reader is inside
\* Read when ~hist.overlap)
Held ==
  IF \E r \in Readers : rd[r].buf /= <<>>
  THEN (CHOOSE b \in {rd[r].buf : r \in Readers} : b /= <<>>)
  ELSE <<>>

\* this step is reader r returning from Pipe.Read
ReadReturned(r) == rd[r].pc /= "idle" /\ rd'[r].pc = "idle"

\* ... with (0, PipeEOF): line 62 is the only return of an error
ReturnedEOF(r) == ReadReturned(r) /\ rd[r].pc = "lock"

\* C5: writes followed by close, read by successive Read calls of any buffer
\* sizes: what has been returned, what the reader holds and what is queued
\* are together exactly x_1..x_n in order, and once a Read has returned EOF
\* all n items have been returned.
PipeFifoDrain ==
  (~hist.lateWrite /\ ~hist.overlap /\ ~pipe.cancelled) =>
     /\ out \o Held \o pipe.queue = Written
     /\ (hist.eofSeen => out = Written)

PipeFifoDrainWitness ==
  /\ ~hist.lateWrite /\ ~hist.overlap /\ ~pipe.cancelled
  /\ hist.eofSeen /\ nw >= 2 /\ out = Written

\* C6 (as claimed): a Read that starts after cancel() returns EOF with m = 0.
PipeCancelEOF ==
  [][\A r \in Readers :
       (ReadReturned(r) /\ rd[r].c0) => (ReturnedEOF(r) /\ out' = out)]_vars

\* C7 (as claimed): a Write on a closed or cancelled pipe fails with
\* ErrClosed and appends nothing.
PipeWriteClosedFails ==
  [][(nw' = nw + 1 /\ pipe.closed) =>
       (PipeWriteErr(pipe) = "ErrClosed" /\ pipe'.queue = pipe.queue)]_vars

\* C8 (as claimed): closed is terminal, and a Read that starts after some
\* Read returned EOF returns EOF with m = 0.
PipeTerminal ==
  [][/\ (pipe.closed => pipe'.closed)
     /\ \A r \in Readers :
          (ReadReturned(r) /\ rd[r].e0) => (ReturnedEOF(r) /\ out' = out)]_vars

\* C9: a Read with a buffer of n >= 1 items that returns without error
\* returns m items, 1 <= m <= n, and it returns fewer than n only when it
\* found the queue empty: it never returns (0, nil).
PipeReadCount ==
  [][\A r \in Readers :
       (ReadReturned(r) /\ ~ReturnedEOF(r)) =>
          LET m == Len(out') - Len(out)
          IN /\ 1 <= m /\ m <= rd[r].n
             /\ (m = rd[r].n \/ pipe.queue = <<>>)]_vars

\* a reader with a buffer of 2 holds the only item there was: its next step
\* returns (1, nil)
PipeReadCountWitness ==
  \E r \in Readers :
     /\ rd[r].pc = "get" /\ rd[r].n = 2 /\ Len(rd[r].buf) = 1
     /\ pipe.queue = <<>> /\ out = <<>>

\* ======================================================= transport claims
Increasing(q) == \A i \in 1..(Len(q) - 1) : q[i] < q[i + 1]

\* the types of the frames of a sequence
Types(fs) == [i \in 1..Len(fs) |-> fs[i].typ]

\* the number of frames of type typ in a sequence of types
Count(q, typ) == Cardinality({i \in 1..Len(q) : q[i] = typ})

\* C1: the Data frames of a stream carry payloads numbered in the order of
\* their writeFrame calls; the receiving reader loop hands them to the
\* streamIO, and streamRecv returns them, in that order.
FrameOrder ==
  \A k \in Kinds, sid \in Sids :
     Increasing(disp[k][sid]) /\ Increasing(recvd[k][sid])

FrameOrderWitness ==
  \E k \in Kinds, sid \in Sids : disp[k][sid] = <<1, 2>> /\ recvd[k][sid] = <<1, 2>>

\* C2 (as claimed): the frames enqueued for a sid in one direction start
\* with a Header, and there is no second Header.
HeaderFirstOnce ==
  \A k \in Kinds, sid \in Sids :
     LET q == sent[k][sid]
     IN q /= <<>> => (q[1] = "header" /\ Count(q, "header") = 1)

\* C3: once a Trailer has been enqueued for a sid in one direction, no Data
\* frame of that sid is enqueued in that direction; a sendMessage on a
\* stream whose send half is closed fails with Closed and leaves the write
\* channel and the frames of its caller unchanged.
SendAfterCloseFails ==
  /\ [](\A k \in Kinds, sid \in Sids :
          LET q == sent[k][sid]
          IN \A i \in 1..Len(q), j \in 1..Len(q) :
                (i < j /\ q[i] = "trailer") => q[j] /= "data")
  /\ [][\A k \in Kinds, sid \in Sids :
          (st[k][sid].sendClosed /\ st[k][sid].pend = <<>> /\ st'[k][sid].nsent = st[k][sid].nsent)
             => (st'[k][sid].lastErr = "Closed" \/ st'[k][sid].lastErr = st[k][sid].lastErr)
                /\ (st'[k][sid].lastErr /= st[k][sid].lastErr =>
                       (wchannel' = wchannel /\ st'[k][sid].pend = <<>>))]_vars

\* the Trailer is on the write channel's log and a later sendMessage failed
SendAfterCloseFailsWitness ==
  \E k \in Kinds, sid \in Sids :
     /\ Count(sent[k][sid], "trailer") = 1
     /\ st[k][sid].lastErr = "Closed"
     /\ st[k][sid].nsent >= 1

CallbackAtMostOnce == sio.cbCount <= 1

\* the callback has fired on the half-close path and a cancel and a close
\* have run to their end as well
CallbackAtMostOnceWitness ==
  /\ sio.cbCount = 1 /\ sio.eofFlag >= 2 /\ sio.pipe.cancelled
  /\ ncalls >= 3 /\ \A t \in Threads : tpc[t].pc = "idle"

\* the half-close methods
HalfCloses == {"closeSend", "closeRecv"}

\* C11 (as claimed): when neither close nor cancel has been called, the
\* callback has fired only if both a closeSend and a closeRecv have been
\* called; calls of one of the two alone never fire it.
HalfCloseNeedsBoth ==
  (sio.cbCount >= 1 /\ called \cap {"close", "cancel"} = {}) => HalfCloses \subseteq called

\* C12: on a streamIO with a callback, once a closeSend and a closeRecv have
\* returned and no half-close call is still running, the callback has fired
\* exactly once, whatever the interleaving of their statements.
HalfCloseFires ==
  (sio.hasCb /\ done = HalfCloses /\ \A t \in Threads : tpc[t].m \notin HalfCloses)
     => sio.cbCount = 1

\* one closeSend and one closeRecv, and neither close nor cancel, have run
HalfCloseFiresWitness ==
  /\ sio.hasCb /\ done = HalfCloses /\ called = HalfCloses /\ ncalls = 2
  /\ \A t \in Threads : tpc[t].pc = "idle"
  /\ sio.cbCount = 1

\* C13: output returns at most one message per call and the messages come
\* in input order; once output has returned EOF, exception is EOF and every
\* later output returns EOF and leaves the streamIO and its pipe as they
\* are, whatever was input in between.
OutputLatchesEOF ==
  /\ [](/\ Increasing(olog.got)
        /\ olog.last = "EOF" => sio.exception = "EOF"
        /\ sio.exception = "EOF" => SioOutput(sio) = [io |-> sio, msg |-> 0, err |-> "EOF"])
  /\ [][/\ Len(olog'.got) <= Len(olog.got) + 1
        /\ olog.last = "EOF" => (olog'.last = "EOF" /\ olog'.got = olog.got)]_vars

\* a message was returned, then EOF, and a message input after that is in
\* the pipe
OutputLatchesEOFWitness ==
  /\ olog.got = <<1>> /\ olog.last = "EOF"
  /\ sio.pipe.queue = <<2>>

\* ================================================ close and failure claims
\* C14 (as claimed): a recv that waits on the pipe of a stream when the
\* stream is cancelled returns a Cancelled error, not EOF (output returns
\* the error it stores in exception).
CancelledRecv ==
  [][\A k \in Kinds, sid \in Sids :
       (st[k][sid].recving /\ ~st'[k][sid].recving /\ streams[k][sid].io.pipe.cancelled)
          => streams'[k][sid].io.exception = "Cancelled"]_vars

\* C15 (as claimed): a writeFrame issued after, or concurrently with,
\* transport.Close never panics.
NoPanicOnSend == \A k \in Kinds : panicked[k] /= "send"

\* C16 (as claimed): a second transport.Close does not panic.
CloseIdempotent == \A k \in Kinds : panicked[k] /= "close"

\* C17 (as claimed): after transport.Close, a recv waiting on the pipe of
\* a registered stream returns: it is never left waiting when no goroutine
\* of either transport has a step left to take.
RecvReturnsAfterClose ==
  \A k \in Kinds, sid \in Sids :
     (wclosed[k] /\ Alive(k) /\ streams[k][sid].reg /\ st[k][sid].recving)
        => ENABLED Internal

\* C18 (as claimed): when loopRead has returned on a decode error or EOF,
\* the transport gets closed: once no goroutine has a step left, the accept
\* pipe, the write channel and the pipes of the registered streams are
\* closed.
ReaderExitClosesTransport ==
  \A k \in Kinds :
     (lr[k] = "done" /\ Alive(k))
        => \/ ENABLED Internal
           \/ /\ spipe[k].closed /\ wclosed[k]
              /\ \A sid \in Sids : streams[k][sid].reg => streams[k][sid].io.pipe.closed

\* C19 (as claimed): when loopWrite has returned on a write error, the
\* transport gets closed: once no goroutine has a step left, the write
\* channel is closed and no producer is left inside writeFrame.
WriterExitClosesTransport ==
  \A k \in Kinds :
     (lw[k] = "done" /\ Alive(k))
        => \/ ENABLED Internal
           \/ wclosed[k] /\ \A sid \in Sids : st[k][sid].pend = <<>>

\* C20 (as claimed): the write channel never holds more than frameChanSize
\* frames, and every frame a send has put on it is dequeued by the writer
\* loop later: none is left on the channel of a loopWrite that has returned.
Backpressure ==
  \A k \in Kinds :
     /\ Len(wchannel[k]) <= frameChanSize
     /\ (Alive(k) /\ wchannel[k] /= <<>>) => lw[k] /= "done"

\* ======================================================= reader loop claims
\* this step is loopRead of transport k taking the frame at the head of the
\* connection
ReadsFrame(k) == wire[Peer(k)] /= <<>> /\ wire'[Peer(k)] = Tail(wire[Peer(k)])

\* C21 (as claimed): a streamRecv whose payload the codec fails to decode
\* returns the Codec error, not success: no payload the codec fails on is
\* among the payloads of the recv calls that returned nil.
CodecErrorSurfaces ==
  \A k \in Kinds, sid \in Sids :
     \A i \in 1..Len(recvd[k][sid]) : DecodePayload(recvd[k][sid][i]) = "nil"

\* C22 (as claimed): when loopRead of the server takes a Header frame whose
\* method the service does not have, it enqueues a Trailer for the sid,
\* writes no stream to the accept pipe, leaves no streamIO registered for
\* the sid and goes on (no panic, the loop still runs).
UnknownMethodRejected ==
  [][\A k \in {serverTransport} :
       (/\ ReadsFrame(k)
        /\ Head(wire[Peer(k)]).typ = "header"
        /\ ~MethodKnown(Head(wire[Peer(k)]).method))
          => /\ wchannel'[k] = Append(wchannel[k], StreamSendTrailer(Head(wire[Peer(k)]).sid))
             /\ spipe'[k] = spipe[k]
             /\ ~streams'[k][Head(wire[Peer(k)]).sid].reg
             /\ panicked'[k] = "no" /\ lr'[k] = "run"]_vars

\* the frame types the switch of loopRead names
FrameTypes == {"meta", "header", "data", "trailer"}

\* C26: a Data, Trailer or Meta frame, or a Header frame at the client,
\* whose sid is not in the stream registry is dropped: the step of loopRead
\* that takes it leaves the registry, the pipes and half-close states of
\* the registered streams, the accept pipe and its cache as they are, and
\* the loop still runs (no return, no panic, the connection stays open).
UnknownSidDropped ==
  [][\A k \in Kinds :
       (/\ ReadsFrame(k)
        /\ Head(wire[Peer(k)]).typ \in FrameTypes
        /\ Head(wire[Peer(k)]).typ = "header" => k = clientTransport
        /\ ~streams[k][Head(wire[Peer(k)]).sid].reg)
          => /\ streams' = streams /\ spipe' = spipe /\ scache' = scache
             /\ st' = st /\ disp' = disp
             /\ lr'[k] = "run" /\ panicked' = panicked /\ connClosed' = connClosed]_vars

\* a Data frame the peer's stream sent has been read off the connection by
\* a transport on which the sid is not registered, and was not dispatched
UnknownSidDroppedWitness ==
  \E k \in Kinds, sid \in Sids :
     /\ ~streams[k][sid].reg
     /\ Count(sent[Peer(k)][sid], "data") > Len(disp[k][sid])
     /\ wchannel[Peer(k)] = <<>> /\ wbuf[Peer(k)] = <<>> /\ wire[Peer(k)] = <<>>
     /\ lr[k] = "run"

\* C27 (as claimed): when loopRead takes a frame whose type is none of
\* Meta, Header, Data, Trailer, it returns and the connection is closed; it
\* does not go on reading.
UnknownTypeClosesConn ==
  [][\A k \in Kinds :
       (ReadsFrame(k) /\ Head(wire[Peer(k)]).typ \notin FrameTypes)
          => lr'[k] = "done" /\ connClosed'[k]]_vars

\* ====================================================== stream id claims
\* the calls of newStream that have returned their stream
Returned == {i \in 1..Len(allocs) : allocs[i].pc /= "new"}

\* C23 (as claimed): every sid newStream returns is strictly positive, the
\* sids of any two calls differ and increase in the order of allocation, and
\* no two streams that are registered at the same time have the same sid.
SidsPositiveIncreasing ==
  /\ \A i \in Returned : allocs[i].sid > 0
  /\ \A i, j \in 1..Len(allocs) : i < j => allocs[i].sid < allocs[j].sid
  /\ \A i, j \in 1..Len(allocs) :
        (i /= j /\ allocs[i].pc = "live" /\ allocs[j].pc = "live")
           => allocs[i].sid /= allocs[j].sid

\* C24 (as claimed): once the counter has reached the largest sid, newStream
\* hands out no further sid (it returns StreamIdExhausted and creates no
\* stream): no call obtains a zero or negative sid or a sid handed out
\* before.
SidExhausted ==
  \A j \in 1..Len(allocs) :
     /\ allocs[j].sid >= 1
     /\ \A i \in 1..(j - 1) : allocs[i].sid /= allocs[j].sid

\* ============================================================ recv claims
\* transport.streamRecv, lines 237-251, called now on stream sid of
\* transport k: the error it returns, "wait" while it waits in Pipe.Read
StreamRecvNow(k, sid) ==
  IF ~LoadStreamIO(streams[k], sid) THEN "EOF"
  ELSE IF SioOutputBlocks(streams[k][sid].io) THEN "wait"
  ELSE StreamRecvErr(SioOutput(streams[k][sid].io).err, "nil")

\* the Trailer of the peer's stream sid has been dispatched by loopRead of
\* transport k: closeRecv has closed the pipe of the registered streamIO
TrailerReceived(k, sid) ==
  /\ Count(sent[Peer(k)][sid], "trailer") >= 1
  /\ streams[k][sid].io.pipe.closed

\* C25 (as claimed): for every stream, recv returns EOF only once the
\* Trailer has been received and every payload dispatched before it has
\* been returned.
RecvEOFOnlyAfterTrailer ==
  \A k \in Kinds, sid \in Sids :
     (st[k][sid].h = "app" /\ StreamRecvNow(k, sid) = "EOF")
        => /\ TrailerReceived(k, sid)
           /\ recvd[k][sid] = disp[k][sid]

\* C25 (amended): for every stream that its application has not cancelled,
\* the payloads loopRead dispatched are, in order, those recv has returned
\* followed by those still queued; recv returns EOF only once the Trailer
\* has been received and the pipe is drained, all dispatched payloads having
\* been returned.
RecvDrainsBeforeEOF ==
  \A k \in Kinds, sid \in Sids :
     streams[k][sid].reg
        => /\ disp[k][sid] = recvd[k][sid] \o streams[k][sid].io.pipe.queue
           /\ StreamRecvNow(k, sid) = "EOF"
                 => /\ TrailerReceived(k, sid)
                    /\ streams[k][sid].io.pipe.queue = <<>>
                    /\ recvd[k][sid] = disp[k][sid]

\* a payload was dispatched and returned, the Trailer was received and a
\* recv has returned EOF
RecvDrainsBeforeEOFWitness ==
  \E k \in Kinds, sid \in Sids :
     /\ streams[k][sid].reg /\ st[k][sid].h = "app"
     /\ recvd[k][sid] = <<1>> /\ disp[k][sid] = <<1>>
     /\ streams[k][sid].io.exception = "EOF"

\* ====================================================== writer loop claims
\* C30: whenever loopWrite waits on the empty write channel, every frame it
\* has encoded has been flushed to the connection, whatever the
\* interleaving of the producers with its len(t.wchannel) == 0 test.
FlushedWhenIdle ==
  \A k \in Kinds :
     (lw[k] = "recv" /\ wchannel[k] = <<>>) => wbuf[k] = <<>>

\* loopWrite waits on the empty channel after it skipped the flush for a
\* frame (a producer had put the next one on the channel) and flushed the
\* two together
FlushedWhenIdleWitness ==
  \E k \in Kinds :
     /\ lw[k] = "recv" /\ wchannel[k] = <<>> /\ wbuf[k] = <<>>
     /\ Len(wire[k]) >= 2

\* ======================================================== stream claims
\* the payloads 1..n, in order
FirstN(n) == [i \in 1..n |-> i]

\* C28: with several streams sending over one connection, the payloads
\* dispatched to stream sid of transport k are, in order, payloads the
\* peer's stream sid has sent, those recv has returned on sid followed by
\* those queued for sid are the payloads dispatched to sid, and the step of
\* loopRead that takes a Data frame of sid A touches the streamIO and the
\* deliveries of no other sid.
NoCrossDelivery ==
  /\ [](\A k \in Kinds, sid \in AllSids :
          /\ disp[k][sid] = FirstN(Len(disp[k][sid]))
          /\ Len(disp[k][sid]) <= st[Peer(k)][sid].nsent
          /\ streams[k][sid].reg =>
                disp[k][sid] = recvd[k][sid] \o streams[k][sid].io.pipe.queue)
  /\ [][\A k \in Kinds :
          (ReadsFrame(k) /\ Head(wire[Peer(k)]).typ = "data")
             => \A sid \in AllSids \ {Head(wire[Peer(k)]).sid} :
                   /\ streams'[k][sid] = streams[k][sid]
                   /\ disp'[k][sid] = disp[k][sid]
                   /\ recvd'[k][sid] = recvd[k][sid]]_vars

\* two streams of one connection have each sent a payload, and each
\* payload was returned by recv on its stream
NoCrossDeliveryWitness ==
  \E k \in Kinds :
     /\ recvd[k] = [sid \in AllSids |-> IF sid <= 2 THEN <<1>> ELSE <<>>]
     /\ st[Peer(k)][1].nsent = 1 /\ st[Peer(k)][2].nsent = 1

\* the streams waiting in the accept pipe and in the cache of readStream
Pending(k) == spipe[k].queue \o scache[k]

\* transport.readStream, lines 304-326, called now: a stream, EOF, or
\* "wait" while it waits in Pipe.Read
ReadStreamNow(k) ==
  IF scache[k] /= <<>> THEN "stream"
  ELSE IF PipeReadBlocks(spipe[k]) THEN "wait"
  ELSE IF PipeReadNow(spipe[k], streamCacheSize).err = "nil" THEN "stream"
  ELSE "EOF"

\* C29: on a server, every stream loopRead wrote to the accept pipe is
\* either waiting, exactly once, in the pipe or the cache, or has been
\* returned by a readStream call and is in neither (none lost, none
\* returned twice); readStream waits while no stream is pending and the pipe
\* is open; it returns EOF only when the pipe is closed and no accepted
\* stream is left in the pipe or the cache.
AcceptExactlyOnce ==
  LET k == serverTransport
  IN /\ \A sid \in AllSids :
          Count(Pending(k), sid) = IF st[k][sid].h = "pend" THEN 1 ELSE 0
     /\ (Pending(k) = <<>> /\ ~spipe[k].closed)
           => ReadStreamNow(k) = "wait" /\ ~ENABLED ReadStream(k)
     /\ ReadStreamNow(k) = "EOF"
           => spipe[k].closed /\ \A sid \in AllSids : st[k][sid].h /= "pend"

\* two streams were accepted and returned by readStream calls, the accept
\* pipe was closed, and readStream returns EOF
AcceptExactlyOnceWitness ==
  LET k == serverTransport
  IN /\ st[k][1].h = "app" /\ st[k][2].h = "app"
     /\ spipe[k].closed
     /\ ReadStreamNow(k) = "EOF"

AcceptOrder ==
  [][\A k \in {serverTransport}, sid \in AllSids :
       (st[k][sid].h = "pend" /\ st'[k][sid].h = "app")
          => sid = Head(scache[k] \o spipe[k].queue)]_vars

\* C33 (as claimed): a reader parked in p.cond.Wait() of Pipe.Read returns
\* after a later Write or Close: it is never left parked, with an item
\* queued or the pipe closed, when no goroutine inside the pipe has a step
\* left to take.
BlockedReadReturns ==
  \A r \in Readers :
     (rd[r].pc = "wait" /\ (pipe.closed \/ pipe.queue /= <<>>))
        => ENABLED PipeInternal

\* ========================================================= encode claims
\* the frames of transport k that are on t.wchannel, in the writer or on
\* the connection
Enqueued(k) == wchannel[k] \o wbuf[k] \o wire[k]

\* C34: a writeFrame call whose payload the codec cannot encode returns the
\* encoding error and leaves t.wchannel as it is: the step that ends such a
\* call changes neither the channel nor the frames counted as sent, and its
\* caller gets the Codec error; no frame whose payload was not encoded is
\* ever on the channel, in the writer or on the connection (the producer
\* encodes before it enqueues).
EncodeErrorNoFrame ==
  /\ [](\A k \in Kinds : \A i \in 1..Len(Enqueued(k)) :
          Enqueued(k)[i].payload /= Unencodable)
  /\ [][\A k \in Kinds, sid \in Sids :
          (/\ st[k][sid].pend /= <<>>
           /\ Head(st[k][sid].pend).typ = "data"
           /\ Head(st[k][sid].pend).payload = Unencodable
           /\ st'[k][sid].pend /= st[k][sid].pend)
             => /\ wchannel' = wchannel /\ sent' = sent
                /\ st'[k][sid].pend = <<>>
                /\ st'[k][sid].lastErr = "Codec"
                /\ panicked' = panicked]_vars

\* a stream has sent one message, whose Data frame was enqueued, and then
\* a send of a message the codec cannot encode has returned the Codec error
\* with no further Data frame enqueued
EncodeErrorNoFrameWitness ==
  \E k \in Kinds, sid \in Sids :
     /\ st[k][sid].lastErr = "Codec" /\ st[k][sid].pend = <<>>
     /\ st[k][sid].nsent = 1
     /\ Count(sent[k][sid], "data") = 1

====
